---------------------------- MODULE Spec2Model ----------------------------
(***************************************************************************)
(* Model of js-java-properties (src/src/properties.ts): a Java properties  *)
(* document kept as an array of text lines, the character-level tokenizer  *)
(* listPairs that reads entries out of it, and the operations parse,       *)
(* stringify, get, toObject, toMap, set and remove.                        *)
(*                                                                         *)
(* A string is a sequence of one-character strings; a document is a        *)
(* sequence of such lines.  Line numbers (start) are 0-based as in the     *)
(* code, so the line with number n is lines[n + 1].                        *)
(***************************************************************************)
EXTENDS Integers, Sequences, FiniteSets, TLC

VARIABLES
  lines,   \* Properties.lines of the document
  op,      \* the last operation performed on the document
  key,     \* the key argument of the last get/set/remove
  value,   \* the value argument of the last set (Undefined for remove)
  before,  \* Properties.lines as they were before the last operation
  text,    \* the text last given to parse
  output,  \* the string last returned by stringify or by an escape function
  scan     \* a run of listPairs in progress: its local state, the position
           \* of chars() in the document and the entries yielded so far

vars == <<lines, op, key, value, before, text, output, scan>>

\* Bound of the model: the longest text given to parse, in characters.
MaxText == 5

\* The characters documents are written with: a key/value letter, the two
\* separator characters '=' and ' ', the backslash and a comment mark.
Chars == {"a", "=", " ", "\\", "#"}

\* The synthetic end-of-line marker of chars().
EOL == "EOL"

\* The JavaScript value undefined, where a string (a sequence of characters)
\* is expected: a sequence that is no string of characters.
Undefined == <<"undefined">>

-----------------------------------------------------------------------------
(* Sequence helpers *)

RECURSIVE SeqsUpTo(_, _)
\* All sequences over S of length at most n.
SeqsUpTo(S, n) ==
  IF n = 0 THEN {<<>>}
  ELSE LET shorter == SeqsUpTo(S, n - 1)
       IN shorter \cup {Append(s, c) : s \in {t \in shorter : Len(t) = n - 1}, c \in S}

\* Array.prototype.splice(start, len, ...items) with a 0-based start.
Splice(arr, start, len, items) ==
  SubSeq(arr, 1, start) \o items \o SubSeq(arr, start + len + 1, Len(arr))

-----------------------------------------------------------------------------
(* parse and stringify *)

RECURSIVE SplitFrom(_, _, _, _)
\* contents.split(/\r\n|\r|\n/): cur is the line being read, acc the lines read.
SplitFrom(contents, i, cur, acc) ==
  IF i > Len(contents) THEN Append(acc, cur)
  ELSE IF contents[i] = "\r" /\ i < Len(contents) /\ contents[i + 1] = "\n"
       THEN SplitFrom(contents, i + 2, <<>>, Append(acc, cur))
  ELSE IF contents[i] \in {"\r", "\n"}
       THEN SplitFrom(contents, i + 1, <<>>, Append(acc, cur))
  ELSE SplitFrom(contents, i + 1, Append(cur, contents[i]), acc)

Split(contents) == SplitFrom(contents, 1, <<>>, <<>>)

\* parse without the removal of the empty last line.
parseKeepsLastLine(contents) == Split(contents)

parse(contents) ==
  LET ls == Split(contents)
  IN IF Len(ls) > 0 /\ Len(ls[Len(ls)]) = 0
     THEN SubSeq(ls, 1, Len(ls) - 1)
     ELSE ls

\* The loop that removes the leading newlines, never entered.
LeadingEmptyKept(ls, start) == start

RECURSIVE LeadingEmpty(_, _)
\* The loop `while (start < lines.length - 1 && lines[start].length === 0)`.
LeadingEmpty(ls, start) ==
  IF start < Len(ls) - 1 /\ Len(ls[start + 1]) = 0
  THEN LeadingEmpty(ls, start + 1)
  ELSE start

RECURSIVE Join(_, _)
\* Array.prototype.join with a one-character separator.
Join(ls, sepChar) ==
  IF Len(ls) = 0 THEN <<>>
  ELSE IF Len(ls) = 1 THEN ls[1]
  ELSE ls[1] \o <<sepChar>> \o Join(Tail(ls), sepChar)

\* stringify without the trailing newline.
stringifyNoTrailingNewline(ls) ==
  Join(SubSeq(ls, LeadingEmpty(ls, 0) + 1, Len(ls)), "\n")

stringify(ls) ==
  LET sliced == SubSeq(ls, LeadingEmpty(ls, 0) + 1, Len(ls))
      ended == IF Len(sliced) > 0 /\ Len(sliced[Len(sliced)]) # 0
               THEN Append(sliced, <<>>)
               ELSE sliced
  IN Join(ended, "\n")

-----------------------------------------------------------------------------
(* The tokenizer *)

newState ==
  [state |-> "START", start |-> -1, key |-> <<>>, sep |-> <<>>, value |-> <<>>,
   skipSpace |-> TRUE, escapedNext |-> FALSE]

\* The generator listPairs before its first step: the fresh state, chars() at
\* the first character of the first line, nothing yielded.  char is the
\* element of chars() read last and prev the state it was read in.
NotScanning ==
  [st |-> newState, n |-> 0, i |-> 1, out |-> <<>>, char |-> "", prev |-> newState]

unescapeChar(c) ==
  CASE c = "r" -> "\r"
    [] c = "t" -> "\t"
    [] c = "n" -> "\n"
    [] c = "f" -> "\f"
    [] OTHER -> c

\* The record listPairs yields for the entry in st that ends on line `line`.
Yield(st, line) ==
  [start |-> st.start, len |-> line - st.start + 1, sep |-> st.sep,
   key |-> st.key, value |-> st.value]

NoYield(st) == [st |-> st, out |-> <<>>]

\* The block `if (state.state === State.START)`.
StartStep(st, char, line) ==
  CASE char = EOL -> st
    [] char \in {"#", "!"} -> [st EXCEPT !.state = "COMMENT", !.start = line]
    [] OTHER -> [st EXCEPT !.state = "KEY", !.start = line]

\* KeyStep with a continuation that does not re-arm the skipping of leading
\* spaces on the next line.
KeyStepKeepsSpaces(st, char, line) ==
  CASE char = EOL ->
         IF st.escapedNext
         THEN NoYield([st EXCEPT !.escapedNext = FALSE])
         ELSE [st |-> newState, out |-> <<Yield(st, line)>>]
    [] char \in {" ", "=", ":"} ->
         IF st.escapedNext
         THEN NoYield([st EXCEPT !.escapedNext = FALSE, !.key = Append(@, char)])
         ELSE NoYield([st EXCEPT !.state = "SEPARATOR"])
    [] char = "\\" ->
         IF st.escapedNext
         THEN NoYield([st EXCEPT !.escapedNext = FALSE, !.key = Append(@, char)])
         ELSE NoYield([st EXCEPT !.escapedNext = TRUE])
    [] OTHER ->
         NoYield([st EXCEPT
                    !.key = Append(@, IF st.escapedNext THEN unescapeChar(char) ELSE char),
                    !.escapedNext = FALSE])

\* The block `if (state.state === State.KEY)`.
KeyStep(st, char, line) ==
  CASE char = EOL ->
         IF st.escapedNext
         THEN NoYield([st EXCEPT !.escapedNext = FALSE, !.skipSpace = TRUE])
         ELSE [st |-> newState, out |-> <<Yield(st, line)>>]
    [] char \in {" ", "=", ":"} ->
         IF st.escapedNext
         THEN NoYield([st EXCEPT !.escapedNext = FALSE, !.key = Append(@, char)])
         ELSE NoYield([st EXCEPT !.state = "SEPARATOR"])
    [] char = "\\" ->
         IF st.escapedNext
         THEN NoYield([st EXCEPT !.escapedNext = FALSE, !.key = Append(@, char)])
         ELSE NoYield([st EXCEPT !.escapedNext = TRUE])
    [] OTHER ->
         NoYield([st EXCEPT
                    !.key = Append(@, IF st.escapedNext THEN unescapeChar(char) ELSE char),
                    !.escapedNext = FALSE])

\* A separator in which no '=' or ':' is ever found.
HasSepCharNever(sep) == FALSE

\* state.sep.match(/[=:]/)
HasSepChar(sep) == \E i \in 1..Len(sep) : sep[i] \in {"=", ":"}

\* The block `if (state.state === State.SEPARATOR)`.
SeparatorStep(st, char, line) ==
  CASE char = EOL -> [st |-> newState, out |-> <<Yield(st, line)>>]
    [] char = " " -> NoYield([st EXCEPT !.sep = Append(@, char)])
    [] char \in {"=", ":"} ->
         IF HasSepChar(st.sep)
         THEN NoYield([st EXCEPT !.state = "VALUE"])
         ELSE NoYield([st EXCEPT !.sep = Append(@, char)])
    [] OTHER -> NoYield([st EXCEPT !.state = "VALUE"])

\* ValueStep that ends the value at every EOL, also after a backslash.
ValueStepEndsAtEveryEOL(st, char, line) ==
  CASE char = EOL -> [st |-> newState, out |-> <<Yield(st, line)>>]
    [] char = "\\" ->
         IF st.escapedNext
         THEN NoYield([st EXCEPT !.escapedNext = FALSE, !.value = Append(@, char)])
         ELSE NoYield([st EXCEPT !.escapedNext = TRUE])
    [] OTHER ->
         NoYield([st EXCEPT
                    !.value = Append(@, IF st.escapedNext THEN unescapeChar(char) ELSE char),
                    !.escapedNext = FALSE])

\* The block `if (state.state === State.VALUE)`.
ValueStep(st, char, line) ==
  CASE char = EOL ->
         IF st.escapedNext
         THEN NoYield([st EXCEPT !.escapedNext = FALSE, !.skipSpace = TRUE])
         ELSE [st |-> newState, out |-> <<Yield(st, line)>>]
    [] char = "\\" ->
         IF st.escapedNext
         THEN NoYield([st EXCEPT !.escapedNext = FALSE, !.value = Append(@, char)])
         ELSE NoYield([st EXCEPT !.escapedNext = TRUE])
    [] OTHER ->
         NoYield([st EXCEPT
                    !.value = Append(@, IF st.escapedNext THEN unescapeChar(char) ELSE char),
                    !.escapedNext = FALSE])

\* One iteration of the loop of listPairs: the tokenizer state after `char`
\* of line `line`, and the entries yielded while reading it.
Step(st, char, line) ==
  IF st.skipSpace /\ char = " " THEN NoYield(st)
  ELSE
    LET s0 == [st EXCEPT !.skipSpace = FALSE]
        s1 == IF s0.state = "START" THEN StartStep(s0, char, line) ELSE s0
    IN IF s1.state = "COMMENT"
       THEN NoYield(IF char = EOL THEN newState ELSE s1)
       ELSE
         LET r2 == IF s1.state = "KEY" THEN KeyStep(s1, char, line) ELSE NoYield(s1)
             r3 == IF r2.st.state = "SEPARATOR"
                   THEN SeparatorStep(r2.st, char, line) ELSE NoYield(r2.st)
             r4 == IF r3.st.state = "VALUE"
                   THEN ValueStep(r3.st, char, line) ELSE NoYield(r3.st)
         IN [st |-> r4.st, out |-> r2.out \o r3.out \o r4.out]

RECURSIVE Scan(_, _, _, _, _)
\* The loop of listPairs over what chars() generates from the i-th character
\* of line n on (every character of every line, each line followed by EOL):
\* st is the tokenizer state, out the entries yielded so far.
Scan(st, out, ls, n, i) ==
  IF n >= Len(ls) THEN [st |-> st, out |-> out]
  ELSE LET atEnd == i > Len(ls[n + 1])
           r == Step(st, IF atEnd THEN EOL ELSE ls[n + 1][i], n)
       IN IF r.out = <<>>
          THEN IF atEnd THEN Scan(r.st, out, ls, n + 1, 1)
                        ELSE Scan(r.st, out, ls, n, i + 1)
          ELSE Scan(r.st, out \o r.out, ls, n + 1, 1)

\* The entries listPairs(lines) yields, in order.
listPairs(ls) == Scan(newState, <<>>, ls, 0, 1).out


-----------------------------------------------------------------------------
(* The escape codec *)

\* char.codePointAt(0) for the characters of the model.  A character that
\* has no printable spelling is named by its code unit: "U+0001" (a control
\* character), "U+007F" (DEL), "U+00E9" (a Latin-1 letter) and "U+D83D" (one
\* half of a surrogate pair, which is what unescapedContent[index] gives for
\* a character outside the basic plane).
CodePoint(c) ==
  CASE c = " " -> 32  [] c = "!" -> 33  [] c = "#" -> 35  [] c = ":" -> 58
    [] c = "=" -> 61  [] c = "\\" -> 92 [] c = "_" -> 95  [] c = "a" -> 97
    [] c = "o" -> 111 [] c = "p" -> 112 [] c = "r" -> 114 [] c = "t" -> 116
    [] c = "e" -> 101 [] c = "k" -> 107 [] c = "y" -> 121 [] c = "1" -> 49
    [] c = "2" -> 50  [] c = "3" -> 51  [] c = "0" -> 48  [] c = "4" -> 52
    [] c = "5" -> 53  [] c = "6" -> 54  [] c = "7" -> 55  [] c = "8" -> 56
    [] c = "9" -> 57  [] c = "b" -> 98  [] c = "c" -> 99  [] c = "d" -> 100
    [] c = "f" -> 102 [] c = "n" -> 110 [] c = "u" -> 117
    [] c = "\t" -> 9  [] c = "\n" -> 10 [] c = "\f" -> 12 [] c = "\r" -> 13
    [] c = "U+0001" -> 1      [] c = "U+007F" -> 127
    [] c = "U+00E9" -> 233    [] c = "U+D83D" -> 55357

HexDigit(d) ==
  <<"0", "1", "2", "3", "4", "5", "6", "7", "8", "9", "a", "b", "c", "d", "e", "f">>[d + 1]

RECURSIVE ToHex(_)
\* codePoint.toString(16)
ToHex(n) == IF n < 16 THEN <<HexDigit(n)>> ELSE Append(ToHex(n \div 16), HexDigit(n % 16))

\* padStart that adds nothing.
PadStartNone(s, len, fill) == s

RECURSIVE PadStart(_, _, _)
\* String.prototype.padStart(len, fill)
PadStart(s, len, fill) == IF Len(s) >= len THEN s ELSE PadStart(<<fill>> \o s, len, fill)

\* What one iteration of the loop of escape() pushes for the character at
\* 0-based position index.
EscapeChar(char, index, escapeSpace, escapeUnicode) ==
  CASE char = " " -> IF escapeSpace \/ index = 0 THEN <<"\\", " ">> ELSE <<" ">>
    [] char = "\\" -> <<"\\", "\\">>
    [] char = "\f" -> <<"\\", "f">>
    [] char = "\n" -> <<"\\", "n">>
    [] char = "\r" -> <<"\\", "r">>
    [] char = "\t" -> <<"\\", "t">>
    [] char \in {"=", ":", "#", "!"} -> <<"\\", char>>
    [] OTHER ->
         IF escapeUnicode /\ (CodePoint(char) < 32 \/ CodePoint(char) > 126)
         THEN <<"\\", "u">> \o PadStart(ToHex(CodePoint(char)), 4, "0")
         ELSE <<char>>

RECURSIVE EscapeFrom(_, _, _, _)
EscapeFrom(content, index, escapeSpace, escapeUnicode) ==
  IF index >= Len(content) THEN <<>>
  ELSE EscapeChar(content[index + 1], index, escapeSpace, escapeUnicode)
         \o EscapeFrom(content, index + 1, escapeSpace, escapeUnicode)

escape(unescapedContent, escapeSpace, escapeUnicode) ==
  EscapeFrom(unescapedContent, 0, escapeSpace, escapeUnicode)

escapeKey(unescapedKey) == escape(unescapedKey, TRUE, TRUE)

\* escapeValue that escapes nothing.
escapeValueVerbatim(unescapedValue) == unescapedValue

escapeValue(unescapedValue) == escape(unescapedValue, FALSE, TRUE)

\* The characters the `.` of a regular expression does not match.
LineTerminators == {"\n", "\r"}

RECURSIVE UnescapeFrom(_, _)
\* str.replace(/\\(.)/g, s => unescapeChar(s[1])) from the i-th character on.
UnescapeFrom(str, i) ==
  IF i > Len(str) THEN <<>>
  ELSE IF str[i] = "\\" /\ i < Len(str) /\ str[i + 1] \notin LineTerminators
       THEN <<unescapeChar(str[i + 1])>> \o UnescapeFrom(str, i + 2)
       ELSE <<str[i]>> \o UnescapeFrom(str, i + 1)

\* unescape that replaces nothing.
unescapeVerbatim(str) == str

unescape(str) == UnescapeFrom(str, 1)

-----------------------------------------------------------------------------
(* Lookup and mutation *)

RECURSIVE FindFrom(_, _, _, _)
\* The loop of findValue over the entries from the i-th on; sep is the
\* separator remembered so far.
FindFrom(entries, i, sep, k) ==
  IF i > Len(entries) THEN [start |-> -1, len |-> 0, sep |-> sep, value |-> Undefined]
  ELSE LET entry == entries[i]
           sep2 == IF entry.sep # <<>> THEN entry.sep ELSE sep
       IN IF k = entry.key
          THEN [start |-> entry.start, len |-> entry.len, sep |-> entry.sep,
                value |-> entry.value]
          ELSE FindFrom(entries, i + 1, sep2, k)

\* findValue returning the last entry with the key instead of the first.
findValueLastMatch(ls, k) ==
  LET entries == listPairs(ls)
      matches == {i \in 1..Len(entries) : entries[i].key = k}
  IN IF matches = {} THEN FindFrom(entries, 1, <<"=">>, k)
     ELSE LET entry == entries[CHOOSE i \in matches : \A j \in matches : j <= i]
          IN [start |-> entry.start, len |-> entry.len, sep |-> entry.sep,
              value |-> entry.value]

findValue(ls, k) == FindFrom(listPairs(ls), 1, <<"=">>, k)

get(ls, k) == findValue(ls, k).value

\* The lines of the document after set(config, key, value).
set(ls, k, v) ==
  LET found == findValue(ls, k)
      items == IF v # Undefined
               THEN <<escapeKey(k) \o (IF found.sep # <<>> THEN found.sep ELSE <<"=">>)
                        \o escapeValue(v)>>
               ELSE <<>>
  IN IF found.start >= 0 /\ found.len > 0
     THEN Splice(ls, found.start, found.len, items)
     ELSE ls \o items

\* The lines of the document after remove(config, key).
remove(ls, k) == set(ls, k, Undefined)


-----------------------------------------------------------------------------
(* Reading the document *)

\* The key-value pairs list(config) yields, in order.
list(ls) ==
  LET entries == listPairs(ls)
  IN [i \in 1..Len(entries) |-> [key |-> entries[i].key, value |-> entries[i].value]]

\* The key "__proto__".
ProtoKey == <<"_", "_", "p", "r", "o", "t", "o", "_", "_">>

\* `result[key] = value` on an object created by the literal {}, with a string
\* value: an own property is defined or overwritten, except that the key
\* "__proto__" reaches the setter inherited from Object.prototype, which
\* ignores a value that is neither an object nor null and defines nothing.
\* An object is the function from its own property names to their values.
ObjectAssign(result, k, v) ==
  IF k = ProtoKey THEN result
  ELSE [p \in (DOMAIN result) \cup {k} |-> IF p = k THEN v ELSE result[p]]

RECURSIVE ToObjectFrom(_, _, _)
ToObjectFrom(entries, i, result) ==
  IF i > Len(entries) THEN result
  ELSE ToObjectFrom(entries, i + 1, ObjectAssign(result, entries[i].key, entries[i].value))

\* The own properties of toObject(config).
toObject(ls) == ToObjectFrom(listPairs(ls), 1, <<>>)

\* Map.prototype.set: a Map is the sequence of its [key, value] records in
\* insertion order; setting a present key keeps its position.
MapSet(m, k, v) ==
  IF \E i \in 1..Len(m) : m[i].key = k
  THEN [i \in 1..Len(m) |-> IF m[i].key = k THEN [key |-> k, value |-> v] ELSE m[i]]
  ELSE Append(m, [key |-> k, value |-> v])

RECURSIVE ToMapFrom(_, _, _)
ToMapFrom(entries, i, result) ==
  IF i > Len(entries) THEN result
  ELSE ToMapFrom(entries, i + 1, MapSet(result, entries[i].key, entries[i].value))

toMap(ls) == ToMapFrom(listPairs(ls), 1, <<>>)


-----------------------------------------------------------------------------
(* The document as a state machine *)

\* The texts parse is given: the characters of Chars and the line feed.
Texts == SeqsUpTo(Chars \cup {"\n"}, MaxText)

\* Documents beyond the bound on the text: the document of the README, and
\* one whose only key is "__proto__".
ReadmeDoc ==
  << <<"k", "e", "y", "1", "=", "v", "a", "l", "u", "e", "1">>,
     <<"k", "e", "y", "2", " ", "=", " ", "v", "a", "l", "u", "e", "2">>,
     <<"k", "e", "y", "3", ":", " ", "v", "a", "l", "u", "e", "3">> >>

ProtoDoc == << ProtoKey \o <<"=", "a">> >>

\* The continuation example: key=val\ followed by ue.
ContinuationDoc ==
  << <<"k", "e", "y", "=", "v", "a", "l", "\\">>, <<"u", "e">> >>

SampleDocs == {ReadmeDoc, ProtoDoc, ContinuationDoc}

\* The keys and values given to set and remove.
Keys == {<<>>, <<"a">>, <<" ">>}

Values == {<<>>, <<"a">>, <<" ", "=">>}

\* The keys set and remove are called with on a document: those of Keys and
\* every key the document holds.
KeysFor(ls) ==
  LET entries == listPairs(ls)
  IN Keys \cup {entries[i].key : i \in 1..Len(entries)}

\* A document is created by parse (or filled line by line, as the README does).
Init ==
  /\ lines \in {parse(t) : t \in Texts} \cup SampleDocs
  /\ op = "parse"
  /\ key = <<>>
  /\ value = Undefined
  /\ before = <<>>
  /\ text = <<>>
  /\ output = <<>>
  /\ scan = NotScanning

\* set and remove act on a document as parse made it.  Every document within
\* the bound is an initial state (a document is parse of the text it
\* stringifies to, up to its empty lines), so the states a sequence of calls
\* reaches through documents within the bound are the states one call
\* reaches, and a longer behaviour adds none.
CanMutate == op = "parse"

Set(k, v) ==
  /\ CanMutate
  /\ lines' = set(lines, k, v)
  /\ op' = "set"
  /\ key' = k
  /\ value' = v
  /\ before' = lines
  /\ UNCHANGED <<text, output, scan>>

Remove(k) ==
  /\ CanMutate
  /\ lines' = remove(lines, k)
  /\ op' = "remove"
  /\ key' = k
  /\ value' = Undefined
  /\ before' = lines
  /\ UNCHANGED <<text, output, scan>>

Next ==
  \/ \E k \in KeysFor(lines), v \in Values : Set(k, v)
  \/ \E k \in KeysFor(lines) : Remove(k)

Spec == Init /\ [][Next]_vars


-----------------------------------------------------------------------------
(* A text parsed and written back *)

\* The texts of the round trip: a letter, a separator and the characters of
\* the three line terminators.
RawTexts == SeqsUpTo({"a", "=", "\r", "\n"}, MaxText)

InitText ==
  /\ text \in RawTexts
  /\ op = "text"
  /\ lines = <<>>
  /\ output = <<>>
  /\ key = <<>>
  /\ value = Undefined
  /\ before = <<>>
  /\ scan = NotScanning

Parse ==
  /\ op = "text"
  /\ lines' = parse(text)
  /\ op' = "parse"
  /\ UNCHANGED <<key, value, before, text, output, scan>>

Stringify ==
  /\ op = "parse"
  /\ output' = stringify(lines)
  /\ op' = "stringify"
  /\ UNCHANGED <<lines, key, value, before, text, scan>>

NextText == Parse \/ Stringify

SpecText == InitText /\ [][NextText]_vars

-----------------------------------------------------------------------------
(* A text escaped as a key or as a value, and unescaped again *)

\* Bound of the model: the longest text given to escapeKey or escapeValue.
MaxCodec == 3

\* The characters of the escaped texts: letters (n is one of the letters that
\* unescapeChar decodes after a backslash), the space, the backslash, the
\* characters escape() prefixes with a backslash, two of the control
\* characters it spells with a letter, and four characters it spells as \u.
CodecChars ==
  {"a", "n", " ", "\\", "=", ":", "#", "!", "\t", "\n",
   "U+0001", "U+007F", "U+00E9", "U+D83D"}

InitCodec ==
  /\ text \in SeqsUpTo(CodecChars, MaxCodec)
  /\ op = "text"
  /\ lines = <<>>
  /\ output = <<>>
  /\ key = <<>>
  /\ value = Undefined
  /\ before = <<>>
  /\ scan = NotScanning

EscapeKey ==
  /\ op = "text"
  /\ output' = escapeKey(text)
  /\ op' = "escapeKey"
  /\ UNCHANGED <<lines, key, value, before, text, scan>>

EscapeValue ==
  /\ op = "text"
  /\ output' = escapeValue(text)
  /\ op' = "escapeValue"
  /\ UNCHANGED <<lines, key, value, before, text, scan>>

\* unescape applied to the escaped key or value.
Unescape ==
  /\ op \in {"escapeKey", "escapeValue"}
  /\ value' = unescape(output)
  /\ op' = (IF op = "escapeKey" THEN "unescapeKey" ELSE "unescapeValue")
  /\ UNCHANGED <<lines, key, before, text, output, scan>>

NextCodec == EscapeKey \/ EscapeValue \/ Unescape

SpecCodec == InitCodec /\ [][NextCodec]_vars

-----------------------------------------------------------------------------
(* The tokenizer read one character at a time *)

InitScan ==
  /\ lines \in {parse(t) : t \in Texts} \cup SampleDocs
  /\ op = "listPairs"
  /\ scan = NotScanning
  /\ key = <<>>
  /\ value = Undefined
  /\ before = <<>>
  /\ text = <<>>
  /\ output = <<>>

\* One iteration of `for (const {char, line} of chars(lines))`: chars() gives
\* the next character of line n, or EOL after its last one, and the body of
\* the loop reads it.
ReadChar ==
  /\ op = "listPairs"
  /\ scan.n < Len(lines)
  /\ LET atEnd == scan.i > Len(lines[scan.n + 1])
         char == IF atEnd THEN EOL ELSE lines[scan.n + 1][scan.i]
         r == Step(scan.st, char, scan.n)
     IN scan' = [st |-> r.st,
                 n |-> IF atEnd THEN scan.n + 1 ELSE scan.n,
                 i |-> IF atEnd THEN 1 ELSE scan.i + 1,
                 out |-> scan.out \o r.out,
                 char |-> char,
                 prev |-> scan.st]
  /\ UNCHANGED <<lines, op, key, value, before, text, output>>

NextScan == ReadChar

SpecScan == InitScan /\ [][NextScan]_vars

-----------------------------------------------------------------------------
(* One entry written as a line, and read back *)

\* Bound of the model: the longest key and the longest value of the entry.
MaxEntry == 2

\* The characters of the keys and values written: two letters (n is decoded
\* after a backslash), the space, the backslash, a separator character and a
\* comment mark.
EntryChars == {"a", "n", " ", "\\", "=", "#"}

Separators == {<<"=">>, <<":">>, <<" ", "=", " ">>, <<":", " ">>}

InitEntry ==
  /\ key \in SeqsUpTo(EntryChars, MaxEntry)
  /\ value \in SeqsUpTo(EntryChars, MaxEntry)
  /\ op = "entry"
  /\ lines = <<>>
  /\ before = <<>>
  /\ text = <<>>
  /\ output = <<>>
  /\ scan = NotScanning

\* The line `${escapeKey(key)}${sep}${escapeValue(value)}` pushed to an empty
\* document; output keeps the separator written.
WriteEntry(sep) ==
  /\ op = "entry"
  /\ lines' = <<escapeKey(key) \o sep \o escapeValue(value)>>
  /\ output' = sep
  /\ op' = "write"
  /\ UNCHANGED <<key, value, before, text, scan>>

NextEntry == \E sep \in Separators : WriteEntry(sep)

SpecEntry == InitEntry /\ [][NextEntry]_vars

-----------------------------------------------------------------------------
(* Vocabulary of the properties *)

RECURSIVE Normalized(_)
\* A text with each of its line terminators \r\n, \r and \n written as \n.
Normalized(str) ==
  IF Len(str) = 0 THEN <<>>
  ELSE IF Len(str) >= 2 /\ str[1] = "\r" /\ str[2] = "\n"
       THEN <<"\n">> \o Normalized(Tail(Tail(str)))
  ELSE IF str[1] = "\r" THEN <<"\n">> \o Normalized(Tail(str))
  ELSE <<str[1]>> \o Normalized(Tail(str))

RECURSIVE Terminated(_)
\* The text whose lines are ls, each line followed by \n.
Terminated(ls) ==
  IF Len(ls) = 0 THEN <<>> ELSE ls[1] \o <<"\n">> \o Terminated(Tail(ls))

RECURSIVE ContentLines(_, _, _)
\* The lines of a text whose terminators are \n (a line is what precedes a
\* terminator, and what follows the last one if that is not empty).
ContentLines(str, i, cur) ==
  IF i > Len(str) THEN (IF cur = <<>> THEN <<>> ELSE <<cur>>)
  ELSE IF str[i] = "\n" THEN <<cur>> \o ContentLines(str, i + 1, <<>>)
  ELSE ContentLines(str, i + 1, Append(cur, str[i]))

RECURSIVE DropLeadingEmpty(_)
DropLeadingEmpty(ls) ==
  IF Len(ls) > 0 /\ ls[1] = <<>> THEN DropLeadingEmpty(Tail(ls)) ELSE ls

\* ls without its last line if that line is empty.
DropLastEmpty(ls) ==
  IF Len(ls) > 0 /\ ls[Len(ls)] = <<>> THEN SubSeq(ls, 1, Len(ls) - 1) ELSE ls

\* The positions of the entries with key k in a sequence of entries.
EntriesOf(entries, k) == {i \in 1..Len(entries) : entries[i].key = k}

HasEntry(entries, k) == EntriesOf(entries, k) # {}

Min(S) == CHOOSE x \in S : \A y \in S : x <= y

Max(S) == CHOOSE x \in S : \A y \in S : x >= y

FirstEntry(entries, k) == entries[Min(EntriesOf(entries, k))]

LastEntry(entries, k) == entries[Max(EntriesOf(entries, k))]

\* The keys of a sequence of entries.
KeysOf(entries) == {entries[i].key : i \in 1..Len(entries)}

\* The line set() writes for key k and value v after separator sep.
EntryLine(k, sep, v) == escapeKey(k) \o sep \o escapeValue(v)

\* ls without the len lines from the 0-based line start on.
WithoutLines(ls, start, len) ==
  [i \in 1..(Len(ls) - len) |-> IF i <= start THEN ls[i] ELSE ls[i + len]]

\* The tokenizer is left inside a key or a value when the lines end: the
\* last line ends in a continuation backslash.
Unterminated(ls) == Scan(newState, <<>>, ls, 0, 1).st.state # "START"

RECURSIVE TrailingBackslashes(_)
\* The number of backslashes a line ends in.
TrailingBackslashes(ln) ==
  IF Len(ln) = 0 \/ ln[Len(ln)] # "\\" THEN 0
  ELSE 1 + TrailingBackslashes(SubSeq(ln, 1, Len(ln) - 1))

\* The line ends in an unescaped backslash.
Continues(ln) == TrailingBackslashes(ln) % 2 = 1

RECURSIVE LStrip(_)
\* A string without its leading spaces.
LStrip(str) == IF Len(str) > 0 /\ str[1] = " " THEN LStrip(Tail(str)) ELSE str

RECURSIVE Unfolded(_, _, _)
\* The text of the lines [start, start+len) read as one logical line: a line
\* that is continued loses its last backslash, a line that continues another
\* loses its leading spaces.
Unfolded(ls, start, len) ==
  IF len = 1 THEN ls[start + 1]
  ELSE SubSeq(ls[start + 1], 1, Len(ls[start + 1]) - 1)
         \o Unfolded([ls EXCEPT ![start + 2] = LStrip(@)], start + 1, len - 1)

\* The first character of a line that is not a space ("" if there is none).
FirstNonSpace(ln) == IF LStrip(ln) = <<>> THEN "" ELSE LStrip(ln)[1]

-----------------------------------------------------------------------------
(* Properties *)

\* C1: immediately after set(doc, key, value) with a string value,
\* get(doc, key) returns exactly value.
C1_GetAfterSet == op = "set" => get(lines, key) = value

\* C2: get(doc, key) is the value of the last entry with that key in line
\* order, and undefined only when no entry has the key.
C2_GetLastDuplicateWins ==
  LET entries == listPairs(lines)
  IN \A k \in Keys \cup KeysOf(entries) :
       get(lines, k) = IF HasEntry(entries, k) THEN LastEntry(entries, k).value
                       ELSE Undefined

\* C3: toObject(doc) and toMap(doc) hold exactly the keys of the entries of
\* the document, each with the value of the last entry with that key, and so
\* give the same mapping.
C3_ToObjectToMapLastWins ==
  LET entries == listPairs(lines)
      object == toObject(lines)
      map == toMap(lines)
  IN /\ DOMAIN object = KeysOf(entries)
     /\ \A k \in KeysOf(entries) : object[k] = LastEntry(entries, k).value
     /\ {map[i].key : i \in 1..Len(map)} = KeysOf(entries)
     /\ \A i, j \in 1..Len(map) : map[i].key = map[j].key => i = j
     /\ \A i \in 1..Len(map) : map[i].value = LastEntry(entries, map[i].key).value

C5_SetAppendsWithEquals ==
  (op = "set" /\ ~HasEntry(listPairs(before), key)) =>
    lines = Append(before, EntryLine(key, <<"=">>, value))

\* C6: if the document holds duplicate entries for the key, exactly one entry
\* with that key remains after set with a string value.
C6_SetLeavesOneEntry ==
  (op = "set" /\ Cardinality(EntriesOf(listPairs(before), key)) >= 2) =>
    Cardinality(EntriesOf(listPairs(lines), key)) = 1

\* C7: after remove(doc, key) no entry with that key remains, also when the
\* key had duplicates: get is undefined and toObject has no such key.
C7_RemoveLeavesNoEntry ==
  op = "remove" =>
    /\ ~HasEntry(listPairs(lines), key)
    /\ get(lines, key) = Undefined
    /\ key \notin DOMAIN toObject(lines)

C9_CommentLinesYieldNoEntry ==
  LET entries == listPairs(lines)
  IN \A n \in 0..(Len(lines) - 1) :
       (/\ FirstNonSpace(lines[n + 1]) \in {"#", "!"}
        /\ (n = 0 \/ ~Continues(lines[n]))) =>
         \A i \in 1..Len(entries) :
           ~(entries[i].start <= n /\ n < entries[i].start + entries[i].len)


\* C10 as stated: stringify(parse(text)) is text with each line terminator
\* written as \n and a single trailing terminator; the sequence of line
\* contents, blank lines included, is unchanged.
C10_RoundTripKeepsEveryLine ==
  op = "stringify" =>
    output = Terminated(ContentLines(Normalized(text), 1, <<>>))

\* C10, amended: stringify(parse(text)) is the lines of text, each followed
\* by \n, except that the empty lines at the start of the text and one empty
\* line at its end are left out; every other line is unchanged, in order.
C10_RoundTripKeepsInnerLines ==
  op = "stringify" =>
    output = Terminated(DropLastEmpty(DropLeadingEmpty(
               ContentLines(Normalized(text), 1, <<>>))))

\* A text with mixed terminators, no empty first line and no empty last line
\* has been parsed and written back.
C10_Witness ==
  /\ op = "stringify"
  /\ text = <<"a", "\r", "\n", "\r", "=">>
  /\ output = <<"a", "\n", "\n", "=", "\n">>

\* The number of line terminators of a text whose terminators are \n.
Terminators(str) == Cardinality({i \in 1..Len(str) : str[i] = "\n"})

\* C11: parse splits the text at every \r\n, bare \r and bare \n, a \r\n
\* counting as one terminator, so no stored line contains \r or \n; the last
\* line after splitting is dropped if it is empty, and only that one, so the
\* empty text gives the empty sequence and a text that ends in a terminator
\* has as many lines as terminators.
C11_ParseSplitsAtEveryTerminator ==
  op \in {"parse", "stringify"} =>
    LET norm == Normalized(text)
        endsOpen == Len(norm) > 0 /\ norm[Len(norm)] # "\n"
    IN /\ \A n \in 1..Len(lines) : \A i \in 1..Len(lines[n]) :
            lines[n][i] \notin {"\r", "\n"}
       /\ Len(lines) = Terminators(norm) + (IF endsOpen THEN 1 ELSE 0)
       /\ Terminated(lines) = (IF endsOpen THEN norm \o <<"\n">> ELSE norm)
       /\ (text = <<>> => lines = <<>>)

\* A text with the three terminators mixed, ending in two of them, has been
\* parsed: the blank line before the last terminator is kept, no further one.
C11_Witness ==
  /\ op = "parse"
  /\ text = <<"a", "\r", "\n", "\r", "\n">>
  /\ lines = <<<<"a">>, <<>>>>

\* C12 as stated: stringify strips every purely-empty leading line, returns
\* the empty text for an empty document, and a non-empty result does not
\* begin with \n and ends with exactly one \n after the last non-empty
\* content.
C12_StringifySingleTrailingNewline ==
  op = "stringify" =>
    /\ (lines = <<>> => output = <<>>)
    /\ output # <<>> =>
         /\ output[1] # "\n"
         /\ output[Len(output)] = "\n"
         /\ Len(output) >= 2 => output[Len(output) - 1] # "\n"

\* C12, amended: stringify strips every purely-empty leading line, returns
\* the empty text for an empty document, and a non-empty result does not
\* begin with \n and ends with \n; the terminator is added only after a
\* non-empty last line, so the empty lines after the last non-empty line,
\* but for the final one, each remain as a further \n.
C12_StringifyEndsWithNewline ==
  op = "stringify" =>
    /\ (lines = <<>> => output = <<>>)
    /\ output # <<>> =>
         /\ output[1] # "\n"
         /\ output[Len(output)] = "\n"
    /\ output = Terminated(DropLastEmpty(DropLeadingEmpty(lines)))

\* A document with an empty first line and two empty last lines has been
\* written: the first is stripped and one of the last two is kept.
C12_Witness ==
  /\ op = "stringify"
  /\ lines = <<<<>>, <<"a">>, <<>>, <<>>>>
  /\ output = <<"a", "\n", "\n">>

\* The printable ASCII characters, 0x20 to 0x7e.
IsPrintable(c) == CodePoint(c) >= 32 /\ CodePoint(c) <= 126

Printable(str) == \A i \in 1..Len(str) : IsPrintable(str[i])

\* C13: for every text of printable ASCII characters, backslashes, leading
\* spaces and = : # ! included, unescape(escapeValue(text)) = text and
\* unescape(escapeKey(text)) = text.
C13_UnescapeInvertsEscape ==
  (op \in {"unescapeKey", "unescapeValue"} /\ Printable(text)) => value = text

\* A printable text with a leading and an inner space, which the two escape
\* functions spell differently, and a backslash has been escaped as a key and
\* unescaped.
C13_Witness ==
  /\ op = "unescapeKey"
  /\ text = <<" ", "\\", " ">>
  /\ output = <<"\\", " ", "\\", "\\", "\\", " ">>
  /\ output # escapeValue(text)
  /\ value = text

LowerHex ==
  <<"0", "1", "2", "3", "4", "5", "6", "7", "8", "9", "a", "b", "c", "d", "e", "f">>

\* The four lowercase hexadecimal digits of a code below 0x10000.
FourHex(code) ==
  <<LowerHex[((code \div 4096) % 16) + 1], LowerHex[((code \div 256) % 16) + 1],
    LowerHex[((code \div 16) % 16) + 1], LowerHex[(code % 16) + 1]>>

\* The spelling of one character of a key (asKey) or of a value; first says
\* that it is the first character of the text.
Spelling(c, first, asKey) ==
  IF c = " " THEN (IF asKey \/ first THEN <<"\\", " ">> ELSE <<" ">>)
  ELSE IF c \in {"\\", "=", ":", "#", "!"} THEN <<"\\", c>>
  ELSE IF c = "\t" THEN <<"\\", "t">>
  ELSE IF c = "\n" THEN <<"\\", "n">>
  ELSE IF c = "\f" THEN <<"\\", "f">>
  ELSE IF c = "\r" THEN <<"\\", "r">>
  ELSE IF IsPrintable(c) THEN <<c>>
  ELSE <<"\\", "u">> \o FourHex(CodePoint(c))

RECURSIVE Spelled(_, _, _)
Spelled(str, i, asKey) ==
  IF i > Len(str) THEN <<>>
  ELSE Spelling(str[i], i = 1, asKey) \o Spelled(str, i + 1, asKey)

\* C14: escapeKey writes every space as backslash-space and escapeValue only
\* a space that is the first character; both put a backslash before a
\* backslash, '=', ':', '#' and '!'; with escapeUnicode true every character
\* with a code below 0x20 (other than \t, \n, \f, \r) or above 0x7e becomes
\* \u and exactly four lowercase zero-padded hexadecimal digits, so the output
\* consists of characters 0x20 to 0x7e only.
C14_EscapeSpelling ==
  op \in {"escapeKey", "escapeValue"} =>
    /\ output = Spelled(text, 1, op = "escapeKey")
    /\ Printable(output)

\* A value with a first and an inner space and a control character has been
\* escaped.
C14_Witness ==
  /\ op = "escapeValue"
  /\ text = <<" ", " ", "U+0001">>
  /\ output = <<"\\", " ", " ", "\\", "u", "0", "0", "0", "1">>

\* The entries with every start moved down by n lines.
Shifted(entries, n) ==
  [j \in 1..Len(entries) |-> [entries[j] EXCEPT !.start = @ + n]]

\* C15: a blank line resets the tokenizer: whenever the tokenizer is in state
\* START at the beginning of a line, the skipping of leading spaces is armed,
\* no escape is pending and the key, separator and value buffers are empty;
\* so what is read from that line on (a line with leading spaces, say) is
\* what would be read were the line the first of a document, whatever
\* precedes it (a blank line, a comment, an entry or nothing).
C15_StartOfLineIsFresh ==
  (op = "listPairs" /\ scan.i = 1 /\ scan.n < Len(lines)
     /\ scan.st.state = "START") =>
    /\ scan.st.skipSpace
    /\ ~scan.st.escapedNext
    /\ scan.st.key = <<>> /\ scan.st.sep = <<>> /\ scan.st.value = <<>>
    /\ Scan(scan.st, <<>>, lines, scan.n, 1).out
         = Shifted(listPairs(SubSeq(lines, scan.n + 1, Len(lines))), scan.n)

\* C16 as stated: for every key and value of printable ASCII characters and
\* every separator of "=", ":", " = ", ": ", the one-line document
\* [escapeKey(key) + sep + escapeValue(value)] yields exactly one entry, with
\* that key, value and separator, start 0 and len 1.
C16_EntryLineReadsBack ==
  op = "write" =>
    listPairs(lines) =
      <<[start |-> 0, len |-> 1, sep |-> output, key |-> key, value |-> value]>>

\* C16, amended: the one-line document [escapeKey(key) + sep + escapeValue(value)]
\* yields exactly one entry, with that key and value, start 0 and len 1; its
\* separator is sep, but for the empty key, where the spaces sep begins with
\* are skipped as the leading spaces of the line (" = " is read as "= ").
C16_EntryLineReadsBackButLeadingSpaces ==
  op = "write" =>
    listPairs(lines) =
      <<[start |-> 0, len |-> 1,
         sep |-> IF key = <<>> THEN LStrip(output) ELSE output,
         key |-> key, value |-> value]>>

\* An entry with the empty key and a value that begins with a space and holds
\* a separator character has been written with the separator " = ".
C16_Witness ==
  /\ op = "write"
  /\ key = <<>>
  /\ value = <<" ", "=">>
  /\ output = <<" ", "=", " ">>
  /\ lines = <<<<" ", "=", " ", "\\", " ", "\\", "=">>>>
  /\ listPairs(lines)[1].sep = <<"=", " ">>

\* The positions of '=' and ':' in a string.
SepChars(str) == {i \in 1..Len(str) : str[i] \in {"=", ":"}}

\* A string of spaces and at most one '=' or ':'.
SepShape(str) ==
  /\ \A i \in 1..Len(str) : str[i] \in {" ", "=", ":"}
  /\ Cardinality(SepChars(str)) <= 1

\* C17: in every state of the tokenizer and in every entry it yields, the
\* separator consists of spaces and at most one '=' or ':'; when the separator
\* holds one already, a further '=' or ':' read in SEPARATOR is not added to
\* it but becomes the first character of the value.
C17_SeparatorShape ==
  op = "listPairs" =>
    /\ SepShape(scan.st.sep)
    /\ \A j \in 1..Len(scan.out) : SepShape(scan.out[j].sep)
    /\ (/\ scan.char \in {"=", ":"}
        /\ scan.prev.state = "SEPARATOR"
        /\ SepChars(scan.prev.sep) # {}) =>
         /\ scan.st.state = "VALUE"
         /\ scan.st.sep = scan.prev.sep
         /\ scan.st.value = <<scan.char>>

\* The line "a = =" has been read: the second '=' is the value.
C17_Witness ==
  /\ op = "listPairs"
  /\ lines = <<<<"a", " ", "=", " ", "=">>>>
  /\ scan.n = 1
  /\ scan.out = <<[start |-> 0, len |-> 1, sep |-> <<" ", "=", " ">>,
                   key |-> <<"a">>, value |-> <<"=">>]>>

\* C18: when the last line ends in an unescaped backslash while a key or a
\* value is being read, the scan ends without an entry for that fragment, the
\* tokenizer still in the key or value, and the entries that end on earlier
\* lines are those the document yields without the lines of the fragment.
C18_TrailingFragmentIsDropped ==
  (/\ op = "listPairs"
   /\ scan.n = Len(lines)
   /\ scan.char = EOL
   /\ scan.prev.escapedNext) =>
    /\ scan.st.state = scan.prev.state
    /\ scan.st.state \in {"KEY", "VALUE"}
    /\ scan.st.start >= 0
    /\ \A j \in 1..Len(scan.out) :
         scan.out[j].start + scan.out[j].len <= scan.st.start
    /\ scan.out = listPairs(SubSeq(lines, 1, scan.st.start))

\* An entry, then a last line whose value ends in a backslash, have been read.
C18_Witness ==
  /\ op = "listPairs"
  /\ lines = <<<<"a">>, <<"a", "=", "\\">>>>
  /\ scan.n = 2
  /\ scan.st.state = "VALUE"
  /\ scan.st.start = 1
  /\ scan.out = <<[start |-> 0, len |-> 1, sep |-> <<>>,
                   key |-> <<"a">>, value |-> <<>>]>>

\* C19: for every document and two distinct keys, after set or remove with
\* the one key the value that get and toObject report for the other key is
\* the same as before, also when the key is appended as a new line or the
\* removed entry is surrounded by blank, indented or continued lines.
C19_OtherKeysUndisturbed ==
  op \in {"set", "remove"} =>
    LET was == toObject(before)
        is == toObject(lines)
    IN \A k2 \in (Keys \cup DOMAIN was \cup DOMAIN is) \ {key} :
         /\ get(lines, k2) = get(before, k2)
         /\ k2 \in DOMAIN is <=> k2 \in DOMAIN was
         /\ k2 \in DOMAIN is => is[k2] = was[k2]

\* C20: every entry yielded has start >= 0, len >= 1 and start + len within
\* the document; start is the line that holds the first non-space character
\* of the entry; the ranges [start, start+len) of successive entries are
\* disjoint and increasing, so the lines set and remove splice for one entry
\* belong to no other entry.
C20_EntryRanges ==
  op = "listPairs" =>
    /\ \A j \in 1..Len(scan.out) :
         /\ scan.out[j].start >= 0
         /\ scan.out[j].len >= 1
         /\ scan.out[j].start + scan.out[j].len <= Len(lines)
         /\ FirstNonSpace(lines[scan.out[j].start + 1]) # ""
    /\ \A j \in 1..(Len(scan.out) - 1) :
         scan.out[j].start + scan.out[j].len <= scan.out[j + 1].start

=============================================================================
